---- MODULE Spec2Model ----
(***************************************************************************)
(* Shared-memory plugins of pyFreeFEM-ML.                                  *)
(*                                                                         *)
(*  - the handoff layer  (pyfreefem_ml/plugins/src/shm_implementation.cpp) *)
(*    POSIX shm_open/ftruncate/mmap segments with a named semaphore:       *)
(*    write_array_to_shared_memory / read_array_from_shared_memory.        *)
(*  - the registry       (pyfreefem_ml/plugins/src/mmap-semaphore.cpp)     *)
(*    System V segments keyed by name: create/destroy/write/read.          *)
(*  - the older registry (plugins/src/mmap-semaphore.cpp)                  *)
(*    Create/Destroy/WriteArray/ReadArray with int size and offset.        *)
(***************************************************************************)
EXTENDS Integers, Sequences, FiniteSets, TLC

(***************************************************************************)
(* Bounds of the model.                                                    *)
(***************************************************************************)
\* longest array handed to publish
MaxLen == 2
\* number of publish and consume calls in one behaviour
MaxCalls == 3
\* number of calls in one behaviour of the specifications that check
\* termination or admit a foreign writer
LiveCalls == 2
\* size in bytes of the segments the byte-level calls are tried on
MaxSeg == 2
\* bits of size_t in the model (64 in the source): sizes are kept modulo 2^WordBits
WordBits == 6

(***************************************************************************)
(* Program constants.                                                      *)
(***************************************************************************)
\* sizeof(SharedMemoryData): two size_t, char[32], char[64]
HeaderSize == 112
\* sizeof(double)
DoubleSize == 8
\* number of registry slots of one process (100 in the source, scaled)
MAX_SHM_OBJECTS == 2

(***************************************************************************)
(* Handoff layer: values.                                                  *)
(***************************************************************************)
Procs == {"P", "Q"}
Producers == {"P"}
Consumers == {"Q"}
Names == {"a"}
\* the arrays a caller publishes: two families of non-zero doubles, each element
\* telling its family and its position; 0 is what a zero-filled page reads as
Families == 1..2
Element(v, k) == 10 * v + k
Arrays == {[k \in 1..n |-> Element(v, k)] : n \in 0..MaxLen, v \in Families}
NoName == ""
TypeTag == "double_array"

\* "/sem_" + name; the model keeps the channel name as the semaphore's name
SemName(n) == n

\* size_t total_size = sizeof(SharedMemoryData) + elements * sizeof(double)
TotalSize(elements) == HeaderSize + elements * DoubleSize

\* struct SharedMemoryData in a zero-filled segment
ZeroEnvelope == [size |-> 0, elements |-> 0, data_type |-> "", semaphore_name |-> NoName]
ZeroData == [i \in 0..(MaxLen - 1) |-> 0]
NoObject == [exists |-> FALSE, size |-> 0, env |-> ZeroEnvelope, data |-> ZeroData]
NoSlot == [name |-> NoName, addr |-> "null", size |-> 0, in_use |-> FALSE]
NoLocal == [name |-> NoName, array |-> <<>>, total_size |-> 0, slot |-> -1,
            i |-> 0, elements |-> 0]

\* what one call has done so far to the shared state: envelope written, payload
\* cells stored, semaphore units raised minus units taken, wait passed
NoIo == [want |-> 0, env |-> FALSE, cells |-> 0, net |-> 0, waited |-> FALSE]

VARIABLES
    shm,          \* kernel: POSIX shared-memory objects by name
    sem,          \* kernel: named semaphores by name
    shm_objects,  \* per process: SharedMemoryManager::shm_objects
    pc,           \* per process: position in the running call
    loc,          \* per process: arguments and locals of the running call
    out,          \* per process: the caller's KN<double> passed to read
    result,       \* per process: what the last call returned
    hist,         \* history of the calls made (not program state)
    sharedMemories, \* registry: SharedMemoryManager::sharedMemories
    kseg,         \* kernel: System V segments by key
    buf,          \* registry: the buffer handed to the last call, if it was a read
    rcall,        \* registry: the last call, its arguments and what it returned
    corrupt,      \* registry: a copy has touched memory outside the segment
    info          \* registry: the ArrayInfo handed to the last array wrapper call

hvars == <<shm, sem, shm_objects, pc, loc, out, result, hist>>
rvars == <<sharedMemories, kseg, buf, rcall, corrupt, info>>
vars == <<hvars, rvars>>

Slots == 0..(MAX_SHM_OBJECTS - 1)

Min(S) == CHOOSE x \in S : \A y \in S : x <= y

\* for (i...) if (!shm_objects[i].in_use) return i; return -1
find_free_slot(p) ==
    LET free == {i \in Slots : ~shm_objects[p][i].in_use}
    IN  IF free = {} THEN -1 ELSE Min(free)

\* for (i...) if (in_use && name == name) return i; return -1
find_slot_by_name(p, n) ==
    LET hit == {i \in Slots : shm_objects[p][i].in_use /\ shm_objects[p][i].name = n}
    IN  IF hit = {} THEN -1 ELSE Min(hit)

\* number of payload cells that lie inside the first `size` bytes
CellsIn(size) == IF size <= HeaderSize THEN 0 ELSE (size - HeaderSize) \div DoubleSize

\* ftruncate(fd, size): sets the object's length; bytes cut off are lost and
\* bytes gained read as zero
Ftruncate(o, size) ==
    [o EXCEPT !.size = size,
              !.env = IF size >= HeaderSize THEN o.env ELSE ZeroEnvelope,
              !.data = [i \in 0..(MaxLen - 1) |->
                          IF i < CellsIn(size) THEN o.data[i] ELSE 0]]

\* payload cell i of process p's mapping lies inside both the mapped length
\* (the slot's size) and the object's current length
InBounds(p, s, i) ==
    /\ TotalSize(i + 1) <= shm_objects[p][s].size
    /\ TotalSize(i + 1) <= shm[shm_objects[p][s].name].size

HandoffInit ==
    /\ shm = [n \in Names |-> NoObject]
    /\ sem = [n \in Names |-> [exists |-> FALSE, count |-> 0]]
    /\ shm_objects = [p \in Procs |-> [i \in Slots |-> NoSlot]]
    /\ pc = [p \in Procs |-> "idle"]
    /\ loc = [p \in Procs |-> NoLocal]
    /\ out = [p \in Procs |-> <<>>]
    /\ result = [p \in Procs |-> "none"]
    /\ hist = [calls |-> 0, pubStarted |-> 0, pubDone |-> 0, consOk |-> 0,
               published |-> [n \in Names |-> {}],
               lastPub |-> [n \in Names |-> <<>>],
               chan |-> [p \in Procs |-> NoName],
               fresh |-> [p \in Procs |-> FALSE],
               quiet |-> [p \in Procs |-> FALSE],
               pubAtStart |-> [p \in Procs |-> 0],
               existed |-> [p \in Procs |-> FALSE],
               io |-> [p \in Procs |-> NoIo]]

\* return from the running call
Return(p, r) ==
    /\ pc' = [pc EXCEPT ![p] = "idle"]
    /\ result' = [result EXCEPT ![p] = r]
    /\ loc' = [loc EXCEPT ![p] = NoLocal]

\* the process dies on a fault (SIGSEGV / SIGBUS)
Crash(p) ==
    /\ pc' = [pc EXCEPT ![p] = "crashed"]
    /\ result' = [result EXCEPT ![p] = "crash"]
    /\ loc' = [loc EXCEPT ![p] = NoLocal]

(***************************************************************************)
(* SharedMemoryManager::create_or_open, in two steps: the lookup with      *)
(* shm_open, then ftruncate with mmap and the slot's registration.         *)
(***************************************************************************)
\* a create_or_open without the lookup of lines 62-66
OpenStep_NoLookup(p, n, arr, size, ok, pcFound, pcTrunc) ==
    LET free == find_free_slot(p)
        l == [NoLocal EXCEPT !.name = n, !.array = arr, !.total_size = size]
    IN  /\ IF free < 0 \/ ~ok
           THEN /\ Return(p, "false")
                /\ UNCHANGED shm
           ELSE /\ pc' = [pc EXCEPT ![p] = pcTrunc]
                /\ result' = [result EXCEPT ![p] = "none"]
                /\ loc' = [loc EXCEPT ![p] = [l EXCEPT !.slot = free]]
                /\ shm' = [shm EXCEPT ![n] =
                              IF shm[n].exists THEN shm[n]
                              ELSE [NoObject EXCEPT !.exists = TRUE]]
        /\ UNCHANGED <<sem, shm_objects, out, rvars>>

\* lines 62-79; ok: whether shm_open succeeds
OpenStep(p, n, arr, size, ok, pcFound, pcTrunc) ==
    LET slot == find_slot_by_name(p, n)
        free == find_free_slot(p)
        l == [NoLocal EXCEPT !.name = n, !.array = arr, !.total_size = size]
    IN  /\ IF slot >= 0
           THEN /\ pc' = [pc EXCEPT ![p] = pcFound]
                /\ result' = [result EXCEPT ![p] = "none"]
                /\ loc' = [loc EXCEPT ![p] = [l EXCEPT !.slot = slot]]
                /\ UNCHANGED shm
           ELSE IF free < 0 \/ ~ok
           THEN /\ Return(p, "false")
                /\ UNCHANGED shm
           ELSE /\ pc' = [pc EXCEPT ![p] = pcTrunc]
                /\ result' = [result EXCEPT ![p] = "none"]
                /\ loc' = [loc EXCEPT ![p] = [l EXCEPT !.slot = free]]
                /\ shm' = [shm EXCEPT ![n] =
                              IF shm[n].exists THEN shm[n]
                              ELSE [NoObject EXCEPT !.exists = TRUE]]
        /\ UNCHANGED <<sem, shm_objects, out, rvars>>

\* the numbers shm_open can return as descriptor: the lowest number the process
\* has free, which depends on the files its host program has open and has
\* closed; the slot indexes, and one number that is no slot index
Fds == 0..MAX_SHM_OBJECTS

\* lines 107-115: SharedMemoryManager::close(int slot) on one process's table
close(objs, slot) ==
    IF slot \notin Slots \/ ~objs[slot].in_use THEN objs
    ELSE [objs EXCEPT ![slot].in_use = FALSE, ![slot].addr = "unmapped"]

\* lines 82-103; fd: the descriptor shm_open returned, okT: ftruncate succeeds,
\* okM: mmap succeeds.  The close(fd) of the two failure paths is the member
\* SharedMemoryManager::close(int slot), which hides ::close inside the class:
\* the descriptor stays open, and when slot number fd is in use (it is then
\* the slot of another name) that slot is unmapped and released.
TruncStep(p, fd, okT, okM, pcNext) ==
    LET n == loc[p].name
        size == loc[p].total_size
    IN  /\ IF ~okT
           THEN /\ Return(p, "false")
                /\ shm_objects' = [shm_objects EXCEPT ![p] = close(@, fd)]
                /\ UNCHANGED shm
           ELSE /\ shm' = [shm EXCEPT ![n] = Ftruncate(shm[n], size)]
                /\ IF ~okM
                   THEN /\ Return(p, "false")
                        /\ shm_objects' = [shm_objects EXCEPT ![p] = close(@, fd)]
                   ELSE /\ shm_objects' = [shm_objects EXCEPT ![p][loc[p].slot] =
                               [name |-> n, addr |-> "mapped", size |-> size,
                                in_use |-> TRUE]]
                        /\ pc' = [pc EXCEPT ![p] = pcNext]
                        /\ UNCHANGED <<loc, result>>
        /\ UNCHANGED <<sem, out, hist, rvars>>

(***************************************************************************)
(* write_array_to_shared_memory                                            *)
(***************************************************************************)
\* lines 144-159 (to shm_open)
PublishOpen(p, n, arr, ok) ==
    /\ pc[p] = "idle"
    /\ hist.calls < MaxCalls
    /\ OpenStep(p, n, arr, TotalSize(Len(arr)), ok, "p_env", "p_trunc")
    /\ hist' = [hist EXCEPT !.calls = @ + 1, !.pubStarted = @ + 1,
                            !.chan[p] = n,
                            !.io[p] = [NoIo EXCEPT !.want = Len(arr)]]

\* lines 156-159 (ftruncate, mmap, registration)
PublishTrunc(p, fd, okT, okM) ==
    /\ pc[p] = "p_trunc"
    /\ TruncStep(p, fd, okT, okM, "p_env")

\* lines 162-169: the envelope
PublishEnvelope(p) ==
    LET n == loc[p].name
        elements == Len(loc[p].array)
    IN  /\ pc[p] = "p_env"
        /\ shm' = [shm EXCEPT ![n].env =
                      [size |-> elements * DoubleSize, elements |-> elements,
                       data_type |-> TypeTag, semaphore_name |-> SemName(n)]]
        /\ pc' = [pc EXCEPT ![p] = "p_semopen"]
        /\ loc' = [loc EXCEPT ![p].elements = elements]
        /\ hist' = [hist EXCEPT !.io[p].env = TRUE]
        /\ UNCHANGED <<sem, shm_objects, out, result, rvars>>

\* a publish that raises the semaphore as soon as it has opened it, before the
\* copy loop
PublishSemOpen_PostsEarly(p, ok) ==
    LET s == SemName(loc[p].name)
    IN  /\ pc[p] = "p_semopen"
        /\ IF ok
           THEN /\ sem' = [sem EXCEPT ![s] =
                              [exists |-> TRUE,
                               count |-> (IF sem[s].exists THEN sem[s].count ELSE 0) + 1]]
                /\ hist' = [hist EXCEPT !.io[p].net = @ + 1]
                /\ pc' = [pc EXCEPT ![p] = "p_copy"]
                /\ loc' = [loc EXCEPT ![p].i = 0]
                /\ UNCHANGED result
           ELSE /\ Return(p, "false")
                /\ UNCHANGED <<sem, hist>>
        /\ UNCHANGED <<shm, shm_objects, out, rvars>>

\* lines 172-176: sem_open(sem_name, O_CREAT, 0666, 0)
PublishSemOpen(p, ok) ==
    LET s == SemName(loc[p].name)
    IN  /\ pc[p] = "p_semopen"
        /\ IF ok
           THEN /\ sem' = [sem EXCEPT ![s] =
                              IF sem[s].exists THEN sem[s]
                              ELSE [exists |-> TRUE, count |-> 0]]
                /\ pc' = [pc EXCEPT ![p] = "p_copy"]
                /\ loc' = [loc EXCEPT ![p].i = 0]
                /\ UNCHANGED result
           ELSE /\ Return(p, "false")
                /\ UNCHANGED sem
        /\ UNCHANGED <<shm, shm_objects, out, hist, rvars>>

\* lines 179-182: data_ptr[i] = (*array)[i], one element per step; a store
\* outside the mapping or past the object's end either faults or lands
PublishCopy(p, fault) ==
    LET n == loc[p].name
        i == loc[p].i
    IN  /\ pc[p] = "p_copy"
        /\ i < loc[p].elements
        /\ fault => ~InBounds(p, loc[p].slot, i)
        /\ IF fault
           THEN /\ Crash(p)
                /\ UNCHANGED <<shm, hist>>
           ELSE /\ shm' = [shm EXCEPT ![n].data[i] = loc[p].array[i + 1]]
                /\ loc' = [loc EXCEPT ![p].i = i + 1]
                /\ hist' = [hist EXCEPT !.io[p].cells = @ + 1]
                /\ UNCHANGED <<pc, result>>
        /\ UNCHANGED <<sem, shm_objects, out, rvars>>

\* lines 185-188: sem_post, sem_close, return true
PublishPost(p) ==
    LET n == loc[p].name
        s == SemName(n)
    IN  /\ pc[p] = "p_copy"
        /\ loc[p].i >= loc[p].elements
        /\ sem' = [sem EXCEPT ![s].count = @ + 1]
        /\ hist' = [hist EXCEPT !.pubDone = @ + 1,
                                !.published[n] = @ \cup {loc[p].array},
                                !.lastPub[n] = loc[p].array,
                                !.io[p].net = @ + 1]
        /\ Return(p, "true")
        /\ UNCHANGED <<shm, shm_objects, out, rvars>>

(***************************************************************************)
(* read_array_from_shared_memory                                           *)
(***************************************************************************)
\* lines 192-205 (to shm_open)
ConsumeOpen(p, n, ok) ==
    /\ pc[p] = "idle"
    /\ hist.calls < MaxCalls
    /\ OpenStep(p, n, <<>>, HeaderSize, ok, "c_semopen", "c_trunc")
    /\ hist' = [hist EXCEPT !.calls = @ + 1,
                            !.chan[p] = n,
                            !.fresh[p] = (find_slot_by_name(p, n) < 0),
                            !.quiet[p] = (\A w \in Producers : pc[w] = "idle"),
                            !.pubAtStart[p] = hist.pubStarted,
                            !.existed[p] = shm[n].exists,
                            !.io[p] = NoIo]

\* lines 202-205 (ftruncate, mmap, registration)
ConsumeTrunc(p, fd, okT, okM) ==
    /\ pc[p] = "c_trunc"
    /\ TruncStep(p, fd, okT, okM, "c_semopen")

\* a consume that resizes the caller's array to the envelope's element count
\* before it opens the semaphore
ConsumeSemOpen_ResizesFirst(p, ok) ==
    LET s == shm[loc[p].name].env.semaphore_name
        elements == shm[loc[p].name].env.elements
    IN  /\ pc[p] = "c_semopen"
        /\ out' = [out EXCEPT ![p] =
                      [k \in 1..elements |->
                          IF k <= Len(out[p]) THEN out[p][k] ELSE 0]]
        /\ IF ok /\ s # NoName /\ sem[s].exists
           THEN /\ pc' = [pc EXCEPT ![p] = "c_wait"]
                /\ UNCHANGED <<loc, result>>
           ELSE Return(p, "false")
        /\ UNCHANGED <<shm, sem, shm_objects, hist, rvars>>

\* lines 208-215: sem_open(shm_data->semaphore_name, 0)
ConsumeSemOpen(p, ok) ==
    LET s == shm[loc[p].name].env.semaphore_name
    IN  /\ pc[p] = "c_semopen"
        /\ IF ok /\ s # NoName /\ sem[s].exists
           THEN /\ pc' = [pc EXCEPT ![p] = "c_wait"]
                /\ UNCHANGED <<loc, result>>
           ELSE Return(p, "false")
        /\ UNCHANGED <<shm, sem, shm_objects, out, hist, rvars>>

\* a wait without a deadline (sem_wait): it returns only with a unit, or on an
\* interrupt
ConsumeWait_NoDeadline(p, ok) ==
    LET s == SemName(loc[p].name)
    IN  /\ pc[p] = "c_wait"
        /\ ~ok \/ sem[s].count > 0
        /\ IF ok
           THEN /\ sem' = [sem EXCEPT ![s].count = @ - 1]
                /\ pc' = [pc EXCEPT ![p] = "c_type"]
                /\ hist' = [hist EXCEPT !.io[p].net = @ - 1, !.io[p].waited = TRUE]
                /\ UNCHANGED <<loc, result>>
           ELSE /\ Return(p, "false")
                /\ UNCHANGED <<sem, hist>>
        /\ UNCHANGED <<shm, shm_objects, out, rvars>>

\* lines 218-225: sem_timedwait; it takes a unit when there is one, and fails
\* at the deadline (or on an interrupt, ok = FALSE) otherwise
ConsumeWait(p, ok) ==
    LET s == SemName(loc[p].name)
    IN  /\ pc[p] = "c_wait"
        /\ IF ok /\ sem[s].count > 0
           THEN /\ sem' = [sem EXCEPT ![s].count = @ - 1]
                /\ pc' = [pc EXCEPT ![p] = "c_type"]
                /\ hist' = [hist EXCEPT !.io[p].net = @ - 1, !.io[p].waited = TRUE]
                /\ UNCHANGED <<loc, result>>
           ELSE /\ Return(p, "false")
                /\ UNCHANGED <<sem, hist>>
        /\ UNCHANGED <<shm, shm_objects, out, rvars>>

\* a type check that returns on a mismatch without giving the unit back
ConsumeType_NoRepost(p) ==
    LET n == loc[p].name
        elements == shm[n].env.elements
    IN  /\ pc[p] = "c_type"
        /\ IF shm[n].env.data_type # TypeTag
           THEN /\ Return(p, "false")
                /\ UNCHANGED <<out, sem, hist>>
           ELSE /\ out' = [out EXCEPT ![p] =
                              [k \in 1..elements |->
                                  IF k <= Len(out[p]) THEN out[p][k] ELSE 0]]
                /\ pc' = [pc EXCEPT ![p] = "c_copy"]
                /\ loc' = [loc EXCEPT ![p].elements = elements, ![p].i = 0]
                /\ UNCHANGED <<sem, result, hist>>
        /\ UNCHANGED <<shm, shm_objects, rvars>>

\* lines 228-237: the type check, then elements and array->resize(elements)
ConsumeType(p) ==
    LET n == loc[p].name
        s == SemName(n)
        elements == shm[n].env.elements
    IN  /\ pc[p] = "c_type"
        /\ IF shm[n].env.data_type # TypeTag
           THEN /\ sem' = [sem EXCEPT ![s].count = @ + 1]
                /\ hist' = [hist EXCEPT !.io[p].net = @ + 1]
                /\ Return(p, "false")
                /\ UNCHANGED out
           ELSE /\ out' = [out EXCEPT ![p] =
                              [k \in 1..elements |->
                                  IF k <= Len(out[p]) THEN out[p][k] ELSE 0]]
                /\ pc' = [pc EXCEPT ![p] = "c_copy"]
                /\ loc' = [loc EXCEPT ![p].elements = elements, ![p].i = 0]
                /\ UNCHANGED <<sem, result, hist>>
        /\ UNCHANGED <<shm, shm_objects, rvars>>

\* lines 240-243: (*array)[i] = data_ptr[i], one element per step; a load
\* outside the mapping or past the object's end either faults or reads the page
ConsumeCopy(p, fault) ==
    LET n == loc[p].name
        i == loc[p].i
    IN  /\ pc[p] = "c_copy"
        /\ i < loc[p].elements
        /\ fault => ~InBounds(p, loc[p].slot, i)
        /\ IF fault
           THEN /\ Crash(p)
                /\ UNCHANGED out
           ELSE /\ out' = [out EXCEPT ![p][i + 1] = shm[n].data[i]]
                /\ loc' = [loc EXCEPT ![p].i = i + 1]
                /\ UNCHANGED <<pc, result>>
        /\ UNCHANGED <<shm, sem, shm_objects, hist, rvars>>

\* a consume that returns without the sem_post of line 246
ConsumePost_KeepsUnit(p) ==
    /\ pc[p] = "c_copy"
    /\ loc[p].i >= loc[p].elements
    /\ hist' = [hist EXCEPT !.consOk = @ + 1]
    /\ Return(p, "true")
    /\ UNCHANGED <<shm, sem, shm_objects, out, rvars>>

\* lines 246-249: sem_post, sem_close, return true
ConsumePost(p) ==
    LET s == SemName(loc[p].name)
    IN  /\ pc[p] = "c_copy"
        /\ loc[p].i >= loc[p].elements
        /\ sem' = [sem EXCEPT ![s].count = @ + 1]
        /\ hist' = [hist EXCEPT !.consOk = @ + 1, !.io[p].net = @ + 1]
        /\ Return(p, "true")
        /\ UNCHANGED <<shm, shm_objects, out, rvars>>

(***************************************************************************)
(* Registry (pyfreefem_ml/plugins/src/mmap-semaphore.cpp): values.         *)
(***************************************************************************)
RegNames == {"u", "v"}
\* size_t arithmetic is modulo 2^WordBits
WordMod == 2 ^ WordBits
SizeT(x) == x % WordMod
\* byte-level calls: the sizes a caller creates segments with, and the offsets
\* and lengths it passes: small ones, and ones near 2^WordBits
SegSizes == {MaxSeg}
Offsets == 0..MaxSeg \cup {WordMod - 1}
Lengths == 0..(MaxSeg + 1) \cup {WordMod - 1}
\* array wrappers: segments of two doubles; element counts, small ones and ones
\* whose product with sizeof(double) does not fit size_t; offsets
ArraySegSizes == {2 * DoubleSize}
Counts == {0, 1, 2, 3, WordMod \div DoubleSize, WordMod \div DoubleSize + 1}
ArrayOffsets == {0, 1, DoubleSize, WordMod - DoubleSize}
\* byte k of the caller's source buffer: it tells the buffer and the position
Data(fam, k) == 100 * fam + k
\* a byte read from outside the segment
Garbage == -1

\* SharedMemInfo(): id(-1), size(0), addr(nullptr), isAttached(false); `present`
\* tells whether the map holds the name
NoInfo == [present |-> FALSE, id |-> -1, size |-> 0, addr |-> "null", isAttached |-> FALSE]
\* SharedMemInfo(_id, _size)
SharedMemInfo(id, size) ==
    [present |-> TRUE, id |-> id, size |-> size, addr |-> "null", isAttached |-> FALSE]

\* generateKey(name): the key of a name; the kernel here hands out one id per key
IdOf(name) == IF name = "u" THEN 1 ELSE 2
NoSeg == [exists |-> FALSE, size |-> 0, bytes |-> <<>>, attached |-> FALSE]
\* ArrayInfo() : size(0), offset(0); size counts elements
ArrayInfo(size, offset) == [size |-> size, offset |-> offset]
NoArrayInfo == ArrayInfo(0, 0)
NoCall == [op |-> "none", name |-> "", size |-> 0, offset |-> 0, fam |-> 0,
           ret |-> "none", id |-> -1]

RegInit ==
    /\ sharedMemories = [n \in RegNames |-> NoInfo]
    /\ kseg = [n \in RegNames |-> NoSeg]
    /\ buf = <<>>
    /\ rcall = NoCall
    /\ corrupt = FALSE
    /\ info = NoArrayInfo

Init == HandoffInit /\ RegInit

\* a registry call can be made: the process is alive
CanCall == rcall.ret # "crash"

\* every registry call is recorded with its arguments and what it returned; the
\* caller's buffer is the one of this call
Called(op, name, size, offset, fam, ret, id) ==
    /\ rcall' = [op |-> op, name |-> name, size |-> size, offset |-> offset,
                 fam |-> fam, ret |-> ret, id |-> id]

\* shmget(key, size, IPC_CREAT | 0666): the id of the key's segment, creating a
\* zero-filled one when there is none; -1 when the call fails, when a new
\* segment is asked with size 0, or when the existing one is smaller than size
Shmget(name, size, ok) ==
    IF ~ok THEN -1
    ELSE IF kseg[name].exists
         THEN IF size > kseg[name].size THEN -1 ELSE IdOf(name)
         ELSE IF size = 0 THEN -1 ELSE IdOf(name)

\* a create without the lookup of lines 52-55
create_NoNameCheck(name, size, ok) ==
    LET shmid == Shmget(name, size, ok)
    IN  /\ CanCall
        /\ IF shmid = -1
           THEN /\ Called("create", name, size, 0, 0, "false", -1)
                /\ buf' = <<>>
                /\ UNCHANGED <<sharedMemories, kseg, corrupt, hvars>>
           ELSE /\ Called("create", name, size, 0, 0, "true", shmid)
                /\ kseg' = [kseg EXCEPT ![name] =
                               IF kseg[name].exists THEN kseg[name]
                               ELSE [exists |-> TRUE, size |-> size,
                                     bytes |-> [k \in 1..size |-> 0],
                                     attached |-> FALSE]]
                /\ sharedMemories' = [sharedMemories EXCEPT ![name] =
                                         SharedMemInfo(shmid, size)]
                /\ buf' = <<>>
                /\ UNCHANGED <<corrupt, hvars>>

\* lines 50-73
create(name, size, ok) ==
    LET shmid == Shmget(name, size, ok)
    IN  /\ CanCall
        /\ IF sharedMemories[name].present \/ shmid = -1
           THEN /\ Called("create", name, size, 0, 0, "false", -1)
                /\ buf' = <<>>
                /\ UNCHANGED <<sharedMemories, kseg, corrupt, hvars>>
           ELSE /\ Called("create", name, size, 0, 0, "true", shmid)
                /\ kseg' = [kseg EXCEPT ![name] =
                               IF kseg[name].exists THEN kseg[name]
                               ELSE [exists |-> TRUE, size |-> size,
                                     bytes |-> [k \in 1..size |-> 0],
                                     attached |-> FALSE]]
                /\ sharedMemories' = [sharedMemories EXCEPT ![name] =
                                         SharedMemInfo(shmid, size)]
                /\ buf' = <<>>
                /\ UNCHANGED <<corrupt, hvars>>

\* a destroy that forgets sharedMemories.erase(it)
destroy_KeepsEntry(name, okDt, okCtl) ==
    LET e == sharedMemories[name]
        detach == e.isAttached /\ e.addr # "null"
    IN  /\ CanCall
        /\ IF ~e.present \/ (detach /\ ~okDt)
           THEN /\ Called("destroy", name, 0, 0, 0, "false", -1)
                /\ UNCHANGED kseg
           ELSE IF ~okCtl
           THEN /\ Called("destroy", name, 0, 0, 0, "false", -1)
                /\ kseg' = [kseg EXCEPT ![name].attached = IF detach THEN FALSE ELSE @]
           ELSE /\ Called("destroy", name, 0, 0, 0, "true", -1)
                /\ kseg' = [kseg EXCEPT ![name] = NoSeg]
        /\ buf' = <<>>
        /\ UNCHANGED <<sharedMemories, corrupt, hvars>>

\* lines 76-102; okDt: shmdt succeeds, okCtl: shmctl(IPC_RMID) succeeds
destroy(name, okDt, okCtl) ==
    LET e == sharedMemories[name]
        detach == e.isAttached /\ e.addr # "null"
    IN  /\ CanCall
        /\ IF ~e.present \/ (detach /\ ~okDt)
           THEN /\ Called("destroy", name, 0, 0, 0, "false", -1)
                /\ buf' = <<>>
                /\ UNCHANGED <<sharedMemories, kseg, corrupt, hvars>>
           ELSE IF ~okCtl
           THEN /\ Called("destroy", name, 0, 0, 0, "false", -1)
                /\ kseg' = [kseg EXCEPT ![name].attached = IF detach THEN FALSE ELSE @]
                /\ buf' = <<>>
                /\ UNCHANGED <<sharedMemories, corrupt, hvars>>
           ELSE /\ Called("destroy", name, 0, 0, 0, "true", -1)
                /\ kseg' = [kseg EXCEPT ![name] = NoSeg]
                /\ sharedMemories' = [sharedMemories EXCEPT ![name] = NoInfo]
                /\ buf' = <<>>
                /\ UNCHANGED <<corrupt, hvars>>

\* the kernel's segment of a name after destroy(name), lines 76-102
AfterDestroy(name, okDt, okCtl) ==
    LET e == sharedMemories[name]
        detach == e.isAttached /\ e.addr # "null"
    IN  IF ~e.present \/ (detach /\ ~okDt) THEN kseg[name]
        ELSE IF ~okCtl
        THEN [kseg[name] EXCEPT !.attached = IF detach THEN FALSE ELSE @]
        ELSE NoSeg

\* lines 178-189: destroy(name) for every registered name, its result ignored,
\* then sharedMemories.clear(); okDt[n], okCtl[n]: shmdt and shmctl succeed in
\* the destroy of n.  Its one caller is ~Init (lines 259-262), at unload.
cleanup(okDt, okCtl) ==
    /\ CanCall
    /\ Called("cleanup", "", 0, 0, 0, "true", -1)
    /\ kseg' = [n \in RegNames |-> AfterDestroy(n, okDt[n], okCtl[n])]
    /\ sharedMemories' = [n \in RegNames |-> NoInfo]
    /\ buf' = <<>>
    /\ UNCHANGED <<corrupt, hvars>>

\* if (offset + size > it->second.size), in size_t
ExceedsSize(offset, size, segsize) == SizeT(offset + size) > segsize

\* the position memcpy's k-th byte goes to or comes from: addr + offset + k
At(offset, k) == SizeT(offset + k)

\* some byte of the copied range lies outside the segment
Outside(offset, size, segsize) == \E k \in 0..(size - 1) : At(offset, k) >= segsize

\* memcpy((char*)addr + offset, data, size): the segment's bytes afterwards
CopyIn(bytes, offset, size, fam) ==
    [j \in 1..Len(bytes) |->
        LET k == SizeT((j - 1) - offset)
        IN  IF k < size THEN Data(fam, k) ELSE bytes[j]]

\* memcpy(data, (char*)addr + offset, size): the caller's buffer afterwards
CopyOut(bytes, offset, size, old) ==
    [k \in 1..(IF size > Len(old) THEN size ELSE Len(old)) |->
        IF k <= size
        THEN IF At(offset, k - 1) < Len(bytes) THEN bytes[At(offset, k - 1) + 1]
             ELSE Garbage
        ELSE old[k]]

\* the buffer a caller hands to read: size bytes, none of them written yet
Untouched == -2
Fresh(size) == [k \in 1..size |-> Untouched]

\* lines 118-127 and 150-159: attach on first use; okAt: shmat succeeds
NeedsAttach(e) == ~e.isAttached \/ e.addr = "null"
Attached(e) == [e EXCEPT !.addr = "map", !.isAttached = TRUE]
AttachFailed(e) == [e EXCEPT !.addr = "null"]

\* the copy of lines 130 and 162 touches memory that is not the segment's: the
\* range leaves the segment, or addr is no longer a mapping of it
Wild(name, size, offset) ==
    LET e == sharedMemories[name]
    IN  \/ Outside(offset, size, kseg[name].size)
        \/ (~NeedsAttach(e) /\ ~kseg[name].attached)

\* what the system does in a call that copies: "ok": shmat succeeds where it
\* is called; "fail": shmat fails; "fault": as "ok", and a wild copy kills the
\* process
OsOutcomes == {"ok", "fail", "fault"}

\* the call gets as far as memcpy
Copies(name, size, offset, os) ==
    LET e == sharedMemories[name]
    IN  e.present /\ ~ExceedsSize(offset, size, e.size) /\ (NeedsAttach(e) => os # "fail")

\* the outcomes a call can have: only a copy that is wild can kill the process
Possible(name, size, offset) ==
    IF Copies(name, size, offset, "fault") /\ Wild(name, size, offset)
    THEN OsOutcomes
    ELSE OsOutcomes \ {"fault"}

\* a write that calls shmat on every call, attached or not
write_AlwaysAttaches(name, fam, size, offset, os) ==
    LET e == sharedMemories[name]
        mapped == TRUE
        okAt == os # "fail"
        fault == os = "fault"
    IN  /\ CanCall
        /\ os \in Possible(name, size, offset)
        /\ IF ~e.present \/ ExceedsSize(offset, size, e.size)
           THEN /\ Called("write", name, size, offset, fam, "false", -1)
                /\ buf' = <<>>
                /\ UNCHANGED <<sharedMemories, kseg, corrupt, hvars>>
           ELSE IF ~okAt
           THEN /\ Called("write", name, size, offset, fam, "false", -1)
                /\ sharedMemories' = [sharedMemories EXCEPT ![name] = AttachFailed(e)]
                /\ buf' = <<>>
                /\ UNCHANGED <<kseg, corrupt, hvars>>
           ELSE /\ Called("write", name, size, offset, fam,
                          IF fault THEN "crash" ELSE "true", -1)
                /\ sharedMemories' = [sharedMemories EXCEPT ![name] = Attached(e)]
                /\ kseg' = [kseg EXCEPT ![name].attached = mapped,
                                        ![name].bytes =
                                            IF fault \/ ~mapped THEN @
                                            ELSE CopyIn(@, offset, size, fam)]
                /\ corrupt' = (corrupt \/ Wild(name, size, offset))
                /\ buf' = <<>>
                /\ UNCHANGED <<hvars>>

\* lines 105-134
write(name, fam, size, offset, os) ==
    LET e == sharedMemories[name]
        mapped == NeedsAttach(e) \/ kseg[name].attached
        okAt == os # "fail"
        fault == os = "fault"
    IN  /\ CanCall
        /\ os \in Possible(name, size, offset)
        /\ IF ~e.present \/ ExceedsSize(offset, size, e.size)
           THEN /\ Called("write", name, size, offset, fam, "false", -1)
                /\ buf' = <<>>
                /\ UNCHANGED <<sharedMemories, kseg, corrupt, hvars>>
           ELSE IF NeedsAttach(e) /\ ~okAt
           THEN /\ Called("write", name, size, offset, fam, "false", -1)
                /\ sharedMemories' = [sharedMemories EXCEPT ![name] = AttachFailed(e)]
                /\ buf' = <<>>
                /\ UNCHANGED <<kseg, corrupt, hvars>>
           ELSE /\ Called("write", name, size, offset, fam,
                          IF fault THEN "crash" ELSE "true", -1)
                /\ sharedMemories' = [sharedMemories EXCEPT ![name] = Attached(e)]
                /\ kseg' = [kseg EXCEPT ![name].attached = mapped,
                                        ![name].bytes =
                                            IF fault \/ ~mapped THEN @
                                            ELSE CopyIn(@, offset, size, fam)]
                /\ corrupt' = (corrupt \/ Wild(name, size, offset))
                /\ buf' = <<>>
                /\ UNCHANGED <<hvars>>

\* lines 137-166
read(name, size, offset, os) ==
    LET e == sharedMemories[name]
        mapped == NeedsAttach(e) \/ kseg[name].attached
        okAt == os # "fail"
        fault == os = "fault"
    IN  /\ CanCall
        /\ os \in Possible(name, size, offset)
        /\ IF ~e.present \/ ExceedsSize(offset, size, e.size)
           THEN /\ Called("read", name, size, offset, 0, "false", -1)
                /\ buf' = Fresh(size)
                /\ UNCHANGED <<sharedMemories, kseg, corrupt, hvars>>
           ELSE IF NeedsAttach(e) /\ ~okAt
           THEN /\ Called("read", name, size, offset, 0, "false", -1)
                /\ sharedMemories' = [sharedMemories EXCEPT ![name] = AttachFailed(e)]
                /\ buf' = Fresh(size)
                /\ UNCHANGED <<kseg, corrupt, hvars>>
           ELSE /\ Called("read", name, size, offset, 0,
                          IF fault THEN "crash" ELSE "true", -1)
                /\ sharedMemories' = [sharedMemories EXCEPT ![name] = Attached(e)]
                /\ kseg' = [kseg EXCEPT ![name].attached = mapped]
                /\ buf' = IF fault THEN Fresh(size)
                          ELSE CopyOut(IF mapped THEN kseg[name].bytes ELSE <<>>,
                                       offset, size, Fresh(size))
                /\ corrupt' = (corrupt \/ Wild(name, size, offset))
                /\ UNCHANGED hvars

\* lines 222-233: size_t size = static_cast<size_t>(info->size) * sizeof(double);
\* the offset is passed on as it is
ArrayBytes(count) == SizeT(count * DoubleSize)

\* lines 222-226
shm_write_array(name, fam, count, offset, os) ==
    /\ write(name, fam, ArrayBytes(count), SizeT(offset), os)
    /\ info' = ArrayInfo(count, offset)

\* lines 229-233
shm_read_array(name, count, offset, os) ==
    /\ read(name, ArrayBytes(count), SizeT(offset), os)
    /\ info' = ArrayInfo(count, offset)

\* lines 169-175
list == {n \in RegNames : sharedMemories[n].present}

(***************************************************************************)
(* The older plugin (src/plugins/src/mmap-semaphore.cpp).  Its map is      *)
(* called segments and holds the same SharedMemInfo entries; it is kept in *)
(* sharedMemories here.  Its calls take int element counts and int byte    *)
(* offsets.                                                                *)
(***************************************************************************)
\* the ints a caller passes as ArrayInfo.size and ArrayInfo.offset
IntCounts == {-1, 0, 1, 2}
IntOffsets == {-DoubleSize, 0, DoubleSize}

\* lines 39-54; ok: ftok and shmget succeed; the entry of the name is
\* overwritten when there is one
Create(name, size, ok) ==
    LET shmid == Shmget(name, size, ok)
    IN  /\ CanCall
        /\ IF shmid = -1
           THEN /\ Called("create", name, size, 0, 0, "false", -1)
                /\ UNCHANGED <<sharedMemories, kseg>>
           ELSE /\ Called("create", name, size, 0, 0, "true", shmid)
                /\ kseg' = [kseg EXCEPT ![name] =
                               IF kseg[name].exists THEN kseg[name]
                               ELSE [exists |-> TRUE, size |-> size,
                                     bytes |-> [k \in 1..size |-> 0],
                                     attached |-> FALSE]]
                /\ sharedMemories' = [sharedMemories EXCEPT ![name] =
                                         SharedMemInfo(shmid, size)]
        /\ buf' = <<>>
        /\ UNCHANGED <<corrupt, info, hvars>>

\* lines 57-78
Destroy(name, okDt, okCtl) ==
    LET e == sharedMemories[name]
    IN  /\ CanCall
        /\ IF ~e.present \/ (e.isAttached /\ ~okDt)
           THEN /\ Called("destroy", name, 0, 0, 0, "false", -1)
                /\ UNCHANGED <<sharedMemories, kseg>>
           ELSE IF ~okCtl
           THEN /\ Called("destroy", name, 0, 0, 0, "false", -1)
                /\ kseg' = [kseg EXCEPT ![name].attached =
                                            IF e.isAttached THEN FALSE ELSE @]
                /\ UNCHANGED sharedMemories
           ELSE /\ Called("destroy", name, 0, 0, 0, "true", -1)
                /\ kseg' = [kseg EXCEPT ![name] = NoSeg]
                /\ sharedMemories' = [sharedMemories EXCEPT ![name] = NoInfo]
        /\ buf' = <<>>
        /\ UNCHANGED <<corrupt, info, hvars>>

\* size * sizeof(double), the int converted to size_t
IntBytes(size) == SizeT(SizeT(size) * DoubleSize)

\* lines 97 and 123: offset + size * sizeof(double) > it->second.size, the int
\* offset converted to size_t
TooLarge(offset, size, segsize) == SizeT(SizeT(offset) + IntBytes(size)) > segsize

\* lines 88-95, 114-121: the entry after shmat
ShmatFailed(e) == [e EXCEPT !.addr = "bad"]

\* the call gets as far as memcpy
CopiesArray(name, size, offset, os) ==
    LET e == sharedMemories[name]
    IN  /\ e.present
        /\ ~e.isAttached => os # "fail"
        /\ ~TooLarge(offset, size, e.size)

\* the outcomes a call of the older plugin can have
PossibleArray(name, size, offset) ==
    IF CopiesArray(name, size, offset, "fault")
       /\ (\/ Outside(SizeT(offset), IntBytes(size), kseg[name].size)
           \/ (sharedMemories[name].isAttached /\ ~kseg[name].attached))
    THEN OsOutcomes
    ELSE OsOutcomes \ {"fault"}

\* lines 81-104: attach, then the check, then memcpy
WriteArray(name, fam, size, offset, os) ==
    LET e == sharedMemories[name]
        mapped == ~e.isAttached \/ kseg[name].attached
        bytes == IntBytes(size)
        off == SizeT(offset)
    IN  /\ CanCall
        /\ os \in PossibleArray(name, size, offset)
        /\ info' = ArrayInfo(size, offset)
        /\ buf' = <<>>
        /\ IF ~e.present
           THEN /\ Called("write", name, bytes, off, fam, "false", -1)
                /\ UNCHANGED <<sharedMemories, kseg, corrupt, hvars>>
           ELSE IF ~e.isAttached /\ os = "fail"
           THEN /\ Called("write", name, bytes, off, fam, "false", -1)
                /\ sharedMemories' = [sharedMemories EXCEPT ![name] = ShmatFailed(e)]
                /\ UNCHANGED <<kseg, corrupt, hvars>>
           ELSE IF TooLarge(offset, size, e.size)
           THEN /\ Called("write", name, bytes, off, fam, "false", -1)
                /\ sharedMemories' = [sharedMemories EXCEPT ![name] = Attached(e)]
                /\ kseg' = [kseg EXCEPT ![name].attached = mapped]
                /\ UNCHANGED <<corrupt, hvars>>
           ELSE /\ Called("write", name, bytes, off, fam,
                          IF os = "fault" THEN "crash" ELSE "true", -1)
                /\ sharedMemories' = [sharedMemories EXCEPT ![name] = Attached(e)]
                /\ kseg' = [kseg EXCEPT ![name].attached = mapped,
                                        ![name].bytes =
                                            IF os = "fault" \/ ~mapped THEN @
                                            ELSE CopyIn(@, off, bytes, fam)]
                /\ corrupt' = (corrupt \/ os = "fault" \/ ~mapped
                                       \/ Outside(off, bytes, kseg[name].size))
                /\ UNCHANGED hvars

\* lines 107-130
ReadArray(name, size, offset, os) ==
    LET e == sharedMemories[name]
        mapped == ~e.isAttached \/ kseg[name].attached
        bytes == IntBytes(size)
        off == SizeT(offset)
    IN  /\ CanCall
        /\ os \in PossibleArray(name, size, offset)
        /\ info' = ArrayInfo(size, offset)
        /\ IF ~e.present
           THEN /\ Called("read", name, bytes, off, 0, "false", -1)
                /\ buf' = Fresh(bytes)
                /\ UNCHANGED <<sharedMemories, kseg, corrupt, hvars>>
           ELSE IF ~e.isAttached /\ os = "fail"
           THEN /\ Called("read", name, bytes, off, 0, "false", -1)
                /\ sharedMemories' = [sharedMemories EXCEPT ![name] = ShmatFailed(e)]
                /\ buf' = Fresh(bytes)
                /\ UNCHANGED <<kseg, corrupt, hvars>>
           ELSE IF TooLarge(offset, size, e.size)
           THEN /\ Called("read", name, bytes, off, 0, "false", -1)
                /\ sharedMemories' = [sharedMemories EXCEPT ![name] = Attached(e)]
                /\ kseg' = [kseg EXCEPT ![name].attached = mapped]
                /\ buf' = Fresh(bytes)
                /\ UNCHANGED <<corrupt, hvars>>
           ELSE /\ Called("read", name, bytes, off, 0,
                          IF os = "fault" THEN "crash" ELSE "true", -1)
                /\ sharedMemories' = [sharedMemories EXCEPT ![name] = Attached(e)]
                /\ kseg' = [kseg EXCEPT ![name].attached = mapped]
                /\ buf' = IF os = "fault" THEN Fresh(bytes)
                          ELSE CopyOut(IF mapped THEN kseg[name].bytes ELSE <<>>,
                                       off, bytes, Fresh(bytes))
                /\ corrupt' = (corrupt \/ os = "fault" \/ ~mapped
                                       \/ Outside(off, bytes, kseg[name].size))
                /\ UNCHANGED hvars

\* the calls the older plugin registers, on one name
OldNext ==
    \/ \E size \in ArraySegSizes, ok \in BOOLEAN : Create("u", size, ok)
    \/ \E okDt \in BOOLEAN, okCtl \in BOOLEAN : Destroy("u", okDt, okCtl)
    \/ \E size \in IntCounts, offset \in IntOffsets, os \in OsOutcomes :
            WriteArray("u", 1, size, offset, os)
    \/ \E size \in IntCounts, offset \in IntOffsets, os \in OsOutcomes :
            ReadArray("u", size, offset, os)

SpecOld == Init /\ [][OldNext]_vars

\* the byte-level calls, on one name
RegNext ==
    \/ \E size \in SegSizes, ok \in BOOLEAN :
            create("u", size, ok) /\ UNCHANGED info
    \/ \E okDt \in BOOLEAN, okCtl \in BOOLEAN :
            destroy("u", okDt, okCtl) /\ UNCHANGED info
    \/ \E size \in Lengths, offset \in Offsets, os \in OsOutcomes :
            write("u", 1, size, offset, os) /\ UNCHANGED info
    \/ \E size \in Lengths, offset \in Offsets, os \in OsOutcomes :
            read("u", size, offset, os) /\ UNCHANGED info

SpecReg == Init /\ [][RegNext]_vars

\* the calls the plugin registers (ShmCreate, ShmDestroy, ShmWriteArray,
\* ShmReadArray), on one name
ArrayNext ==
    \/ \E size \in ArraySegSizes, ok \in BOOLEAN :
            create("u", size, ok) /\ UNCHANGED info
    \/ \E okDt \in BOOLEAN, okCtl \in BOOLEAN :
            destroy("u", okDt, okCtl) /\ UNCHANGED info
    \/ \E count \in Counts, offset \in ArrayOffsets, os \in OsOutcomes :
            shm_write_array("u", 1, count, offset, os)
    \/ \E count \in Counts, offset \in ArrayOffsets, os \in OsOutcomes :
            shm_read_array("u", count, offset, os)

SpecArray == Init /\ [][ArrayNext]_vars

\* the byte-level calls on every name, moving one byte at offset 0
NamesNext ==
    \/ \E n \in RegNames, size \in 1..MaxSeg, ok \in BOOLEAN :
            create(n, size, ok) /\ UNCHANGED info
    \/ \E n \in RegNames, okDt \in BOOLEAN, okCtl \in BOOLEAN :
            destroy(n, okDt, okCtl) /\ UNCHANGED info
    \/ \E n \in RegNames, os \in OsOutcomes :
            write(n, 1, 1, 0, os) /\ UNCHANGED info
    \/ \E n \in RegNames, os \in OsOutcomes :
            read(n, 1, 0, os) /\ UNCHANGED info

SpecNames == Init /\ [][NamesNext]_vars

\* the plugin's life: calls on either name while it is loaded, then the unload
\* with its cleanup, after which nothing is called
Loaded == rcall.op # "cleanup"

UnloadNext ==
    \/ \E n \in RegNames, size \in 1..MaxSeg, ok \in BOOLEAN :
            Loaded /\ create(n, size, ok) /\ UNCHANGED info
    \/ \E n \in RegNames, okDt \in BOOLEAN, okCtl \in BOOLEAN :
            Loaded /\ destroy(n, okDt, okCtl) /\ UNCHANGED info
    \/ \E n \in RegNames, os \in OsOutcomes :
            Loaded /\ write(n, 1, 1, 0, os) /\ UNCHANGED info
    \/ \E n \in RegNames, os \in OsOutcomes :
            Loaded /\ read(n, 1, 0, os) /\ UNCHANGED info
    \/ \E okDt \in [RegNames -> BOOLEAN], okCtl \in [RegNames -> BOOLEAN] :
            Loaded /\ cleanup(okDt, okCtl) /\ UNCHANGED info

SpecUnload == Init /\ [][UnloadNext]_vars

(***************************************************************************)
(* Specifications of the handoff layer.  Spec: every system call succeeds. *)
(* SpecF: shm_open, ftruncate, mmap, sem_open and sem_timedwait may fail.  *)
(***************************************************************************)
PublishNext(p, oks) ==
    \/ \E n \in Names, arr \in Arrays, ok \in oks : PublishOpen(p, n, arr, ok)
    \/ \E fd \in Fds, okT \in oks, okM \in oks : PublishTrunc(p, fd, okT, okM)
    \/ PublishEnvelope(p)
    \/ \E ok \in oks : PublishSemOpen(p, ok)
    \/ \E fault \in BOOLEAN : PublishCopy(p, fault)
    \/ PublishPost(p)

ConsumeNext(p, oks) ==
    \/ \E n \in Names, ok \in oks : ConsumeOpen(p, n, ok)
    \/ \E fd \in Fds, okT \in oks, okM \in oks : ConsumeTrunc(p, fd, okT, okM)
    \/ \E ok \in oks : ConsumeSemOpen(p, ok)
    \/ \E ok \in oks : ConsumeWait(p, ok)
    \/ ConsumeType(p)
    \/ \E fault \in BOOLEAN : ConsumeCopy(p, fault)
    \/ ConsumePost(p)

Next ==
    \/ \E p \in Producers : PublishNext(p, {TRUE})
    \/ \E p \in Consumers : ConsumeNext(p, {TRUE})

Spec == Init /\ [][Next]_vars

NextF ==
    \/ \E p \in Producers : PublishNext(p, BOOLEAN)
    \/ \E p \in Consumers : ConsumeNext(p, BOOLEAN)

SpecF == Init /\ [][NextF]_vars

\* a process inside a call goes on executing it: sem_timedwait returns at its
\* deadline at the latest, every other step is straight-line code
Running(p) ==
    /\ pc[p] \notin {"idle", "crashed"}
    /\ PublishNext(p, {TRUE}) \/ ConsumeNext(p, {TRUE})

\* the calls of Spec, LiveCalls of them at most
LiveNext ==
    \/ \E p \in Producers :
          (pc[p] = "idle" => hist.calls < LiveCalls) /\ PublishNext(p, {TRUE})
    \/ \E p \in Consumers :
          (pc[p] = "idle" => hist.calls < LiveCalls) /\ ConsumeNext(p, {TRUE})

SpecLive == Init /\ [][LiveNext]_vars /\ \A p \in Procs : WF_vars(Running(p))

\* the same calls when shm_open, ftruncate, mmap, sem_open and the waits can fail
SlotNext ==
    \/ \E p \in Producers :
          (pc[p] = "idle" => hist.calls < LiveCalls) /\ PublishNext(p, BOOLEAN)
    \/ \E p \in Consumers :
          (pc[p] = "idle" => hist.calls < LiveCalls) /\ ConsumeNext(p, BOOLEAN)

SpecSlots == Init /\ [][SlotNext]_vars

(***************************************************************************)
(* The slot table under more channel names than it has slots: one more     *)
(* than MAX_SHM_OBJECTS.  Every publish carries the same array.            *)
(***************************************************************************)
AllNames == <<"a", "b", "c", "d", "e">>
ChanNames == {AllNames[k] : k \in 1..(MAX_SHM_OBJECTS + 1)}
TableArray == <<Element(1, 1)>>

TableInit ==
    /\ shm = [n \in ChanNames |-> NoObject]
    /\ sem = [n \in ChanNames |-> [exists |-> FALSE, count |-> 0]]
    /\ shm_objects = [p \in Procs |-> [i \in Slots |-> NoSlot]]
    /\ pc = [p \in Procs |-> "idle"]
    /\ loc = [p \in Procs |-> NoLocal]
    /\ out = [p \in Procs |-> <<>>]
    /\ result = [p \in Procs |-> "none"]
    /\ hist = [calls |-> 0, pubStarted |-> 0, pubDone |-> 0, consOk |-> 0,
               published |-> [n \in ChanNames |-> {}],
               lastPub |-> [n \in ChanNames |-> <<>>],
               chan |-> [p \in Procs |-> NoName],
               fresh |-> [p \in Procs |-> FALSE],
               quiet |-> [p \in Procs |-> FALSE],
               pubAtStart |-> [p \in Procs |-> 0],
               existed |-> [p \in Procs |-> FALSE],
               io |-> [p \in Procs |-> NoIo]]
    /\ RegInit

TableNext ==
    \/ \E p \in Producers, n \in ChanNames, ok \in BOOLEAN :
            PublishOpen(p, n, TableArray, ok)
    \/ \E p \in Producers, fd \in Fds, okT \in BOOLEAN, okM \in BOOLEAN :
            PublishTrunc(p, fd, okT, okM)
    \/ \E p \in Producers : PublishEnvelope(p)
    \/ \E p \in Producers, ok \in BOOLEAN : PublishSemOpen(p, ok)
    \/ \E p \in Producers, fault \in BOOLEAN : PublishCopy(p, fault)
    \/ \E p \in Producers : PublishPost(p)
    \/ \E p \in Consumers, n \in ChanNames, ok \in BOOLEAN : ConsumeOpen(p, n, ok)
    \/ \E p \in Consumers, fd \in Fds, okT \in BOOLEAN, okM \in BOOLEAN :
            ConsumeTrunc(p, fd, okT, okM)
    \/ \E p \in Consumers, ok \in BOOLEAN : ConsumeSemOpen(p, ok)
    \/ \E p \in Consumers, ok \in BOOLEAN : ConsumeWait(p, ok)
    \/ \E p \in Consumers : ConsumeType(p)
    \/ \E p \in Consumers, fault \in BOOLEAN : ConsumeCopy(p, fault)
    \/ \E p \in Consumers : ConsumePost(p)

SpecTable == TableInit /\ [][TableNext]_vars

(***************************************************************************)
(* One producer process and two consumer processes on the channel, each    *)
(* making one call.                                                        *)
(***************************************************************************)
DuoConsumers == Consumers \cup {"R"}
DuoProcs == Producers \cup DuoConsumers

DuoInit ==
    /\ shm = [n \in Names |-> NoObject]
    /\ sem = [n \in Names |-> [exists |-> FALSE, count |-> 0]]
    /\ shm_objects = [p \in DuoProcs |-> [i \in Slots |-> NoSlot]]
    /\ pc = [p \in DuoProcs |-> "idle"]
    /\ loc = [p \in DuoProcs |-> NoLocal]
    /\ out = [p \in DuoProcs |-> <<>>]
    /\ result = [p \in DuoProcs |-> "none"]
    /\ hist = [calls |-> 0, pubStarted |-> 0, pubDone |-> 0, consOk |-> 0,
               published |-> [n \in Names |-> {}],
               lastPub |-> [n \in Names |-> <<>>],
               chan |-> [p \in DuoProcs |-> NoName],
               fresh |-> [p \in DuoProcs |-> FALSE],
               quiet |-> [p \in DuoProcs |-> FALSE],
               pubAtStart |-> [p \in DuoProcs |-> 0],
               existed |-> [p \in DuoProcs |-> FALSE],
               io |-> [p \in DuoProcs |-> NoIo]]
    /\ RegInit

\* the process has made no call yet
FirstCall(p) == pc[p] = "idle" => result[p] = "none"

DuoNext ==
    \/ \E p \in Producers : FirstCall(p) /\ PublishNext(p, {TRUE})
    \/ \E p \in DuoConsumers : FirstCall(p) /\ ConsumeNext(p, {TRUE})

SpecDuo == DuoInit /\ [][DuoNext]_vars

(***************************************************************************)
(* The channel is an object of the system: another program can write it.   *)
(* SpecTyped adds a writer that publishes a payload of another type (the   *)
(* envelope's data_type is made for "int", "double", "double_array"), and  *)
(* lets the consumer's caller hand over an array that already has content. *)
(***************************************************************************)
ForeignTag == "int"

\* another program publishes on the name: it creates what is missing, writes
\* an envelope with its own type tag and raises the semaphore
ForeignPublish(n) ==
    /\ hist.calls < LiveCalls
    /\ shm' = [shm EXCEPT ![n] =
                  [(IF shm[n].exists THEN shm[n]
                    ELSE [NoObject EXCEPT !.exists = TRUE, !.size = HeaderSize])
                   EXCEPT !.env = [size |-> 0, elements |-> 0,
                                   data_type |-> ForeignTag,
                                   semaphore_name |-> SemName(n)]]]
    /\ sem' = [sem EXCEPT ![SemName(n)] =
                  [exists |-> TRUE,
                   count |-> (IF sem[SemName(n)].exists THEN sem[SemName(n)].count
                              ELSE 0) + 1]]
    /\ hist' = [hist EXCEPT !.calls = @ + 1]
    /\ UNCHANGED <<shm_objects, pc, loc, out, result, rvars>>

\* the state after construction, the consumers' callers holding any array
TypedInit ==
    /\ shm = [n \in Names |-> NoObject]
    /\ sem = [n \in Names |-> [exists |-> FALSE, count |-> 0]]
    /\ shm_objects = [p \in Procs |-> [i \in Slots |-> NoSlot]]
    /\ pc = [p \in Procs |-> "idle"]
    /\ loc = [p \in Procs |-> NoLocal]
    /\ \E a \in Arrays :
          out = [p \in Procs |-> IF p \in Consumers THEN a ELSE <<>>]
    /\ result = [p \in Procs |-> "none"]
    /\ hist = [calls |-> 0, pubStarted |-> 0, pubDone |-> 0, consOk |-> 0,
               published |-> [n \in Names |-> {}],
               lastPub |-> [n \in Names |-> <<>>],
               chan |-> [p \in Procs |-> NoName],
               fresh |-> [p \in Procs |-> FALSE],
               quiet |-> [p \in Procs |-> FALSE],
               pubAtStart |-> [p \in Procs |-> 0],
               existed |-> [p \in Procs |-> FALSE],
               io |-> [p \in Procs |-> NoIo]]
    /\ RegInit

TypedNext ==
    \/ \E p \in Producers :
          (pc[p] = "idle" => hist.calls < LiveCalls) /\ PublishNext(p, {TRUE})
    \/ \E p \in Consumers :
          (pc[p] = "idle" => hist.calls < LiveCalls) /\ ConsumeNext(p, {TRUE})
    \/ \E n \in Names : ForeignPublish(n)

SpecTyped == TypedInit /\ [][TypedNext]_vars

\* the same when the system calls of publish and consume can fail
FailNext ==
    \/ \E p \in Producers :
          (pc[p] = "idle" => hist.calls < LiveCalls) /\ PublishNext(p, BOOLEAN)
    \/ \E p \in Consumers :
          (pc[p] = "idle" => hist.calls < LiveCalls) /\ ConsumeNext(p, BOOLEAN)
    \/ \E n \in Names : ForeignPublish(n)

SpecFail == TypedInit /\ [][FailNext]_vars

TypeOK ==
    /\ \A n \in Names : shm[n].size >= 0 /\ sem[n].count >= 0
    /\ \A p \in Procs : pc[p] \in {"idle", "crashed", "p_trunc", "p_env", "p_semopen",
                                   "p_copy", "c_trunc", "c_semopen", "c_wait",
                                   "c_type", "c_copy"}
(***************************************************************************)
(* Claims about the handoff layer.                                         *)
(***************************************************************************)
Finished(p) == pc[p] \in {"idle", "crashed"} /\ result[p] # "none"
Reading(p) == pc[p] \in {"c_type", "c_copy"}
Publishing(p) == pc[p] \in {"p_semopen", "p_copy"}

\* C1: with one producer and one consumer, a consume that returns true returns
\* one completely published array, and between its successful wait and its
\* return no publish on the channel is between its envelope write and its post.
C1_ConsumeSeesOnePublish ==
    /\ \A q \in Consumers :
          (pc[q] = "idle" /\ result[q] = "true")
             => out[q] \in hist.published[hist.chan[q]]
    /\ \A q \in Consumers, w \in Producers :
          ~(Reading(q) /\ Publishing(w) /\ loc[q].name = loc[w].name)

\* C2: a publish raises the semaphore only as its last step, after the envelope
\* and every payload element were written, and a publish that returns false has
\* not changed the semaphore's count.
C2_SignalAfterData ==
    \A p \in Producers :
        /\ hist.io[p].net \in {0, 1}
        /\ hist.io[p].net = 1 =>
              /\ pc[p] = "idle" /\ result[p] = "true"
              /\ hist.io[p].env
              /\ hist.io[p].cells = hist.io[p].want
        /\ Finished(p) /\ result[p] # "true" => hist.io[p].net = 0

\* C2 witness: a publish of a full-length array has returned true after writing
\* the envelope and every element, its post being the only change of the count.
C2_Witness ==
    \E p \in Producers :
        /\ pc[p] = "idle" /\ result[p] = "true"
        /\ hist.io[p].net = 1 /\ hist.io[p].cells = MaxLen /\ hist.io[p].env

\* C3: after one publish and one successful consume, with nothing running, the
\* semaphore is back at 0 and no second consume has succeeded.
C3_ConsumeTakesTheUnit ==
    (/\ \A p \in Procs : pc[p] = "idle"
     /\ hist.pubStarted = 1 /\ hist.pubDone = 1 /\ hist.consOk >= 1)
        => /\ hist.consOk = 1
           /\ \A n \in Names : sem[SemName(n)].count = 0

\* C4: a consume in a process with no registry entry for the name, begun after
\* a completed publish with no publish running since, returns true with the
\* published array.
C4_HandoffDelivers ==
    \A q \in Consumers :
        (/\ Finished(q)
         /\ hist.fresh[q] /\ hist.quiet[q]
         /\ hist.pubAtStart[q] = hist.pubStarted
         /\ hist.published[hist.chan[q]] # {})
            => /\ result[q] = "true"
               /\ out[q] = hist.lastPub[hist.chan[q]]

\* C5: a publish never gets past create_or_open with a registered slot smaller
\* than the envelope plus the payload, so it stores nothing past the slot's size.
C5_SmallSlotRejected ==
    \A p \in Producers :
        pc[p] \in {"p_env", "p_semopen", "p_copy"}
            => shm_objects[p][loc[p].slot].size >= loc[p].total_size

\* C9: a consume call gets past its first step only when the data segment
\* exists: on an absent segment it fails without reaching the semaphore.
C9_AbsentSegmentNotFound ==
    [][\A q \in Consumers :
          (pc[q] = "idle" /\ pc'[q] \in {"c_trunc", "c_semopen"})
              => shm[loc'[q].name].exists]_vars

\* C10: no step of a consume changes the size, the envelope or the payload of
\* an object a producer has registered.
C10_ConsumerReadOnly ==
    [][\A q \in Consumers :
          (<<pc[q], loc[q]>>' # <<pc[q], loc[q]>>)
              => \A n \in Names :
                    (\E w \in Producers : find_slot_by_name(w, n) >= 0)
                        => shm'[n] = shm[n]]_vars
(***************************************************************************)
(* Claims about the registry.                                              *)
(***************************************************************************)
\* the step is a call of write or read on a registered name
Transfer == rcall'.op \in {"write", "read"} /\ sharedMemories[rcall'.name].present

\* C6: a write or read on a registered segment whose offset plus length, as
\* integers, exceeds the segment's size returns false and changes neither the
\* segment's bytes nor the caller's buffer.
C6_OutOfBoundsRejected ==
    [][(Transfer /\ rcall'.offset + rcall'.size > sharedMemories[rcall'.name].size)
          => /\ rcall'.ret = "false"
             /\ kseg'[rcall'.name].bytes = kseg[rcall'.name].bytes
             /\ rcall'.op = "read" => buf' = Fresh(rcall'.size)]_vars

\* C7: an array write or read whose true byte range [offset, offset + 8 * size)
\* is not inside the registered segment returns false.
C7_WrapAroundRejected ==
    (/\ rcall.op \in {"write", "read"}
     /\ sharedMemories[rcall.name].present
     /\ ~(/\ info.offset >= 0 /\ info.size >= 0
          /\ info.offset + DoubleSize * info.size <= sharedMemories[rcall.name].size))
        => rcall.ret = "false"

\* C8: on a registered segment, a write whose range fits the segment returns
\* true unless its shmat fails, stores the buffer at the offset and leaves the
\* other bytes as they were; a read whose range fits returns, unless its shmat
\* fails, true with the bytes of the range.
C8_RoundTrip ==
    [][(/\ Transfer
        /\ rcall'.offset + rcall'.size <= sharedMemories[rcall'.name].size
        /\ ~(NeedsAttach(sharedMemories[rcall'.name]) /\ rcall'.ret = "false"))
          => /\ rcall'.ret = "true"
             /\ rcall'.op = "write" =>
                    kseg'[rcall'.name].bytes =
                        [j \in 1..Len(kseg[rcall'.name].bytes) |->
                            IF j - 1 >= rcall'.offset /\ j - 1 < rcall'.offset + rcall'.size
                            THEN Data(rcall'.fam, j - 1 - rcall'.offset)
                            ELSE kseg[rcall'.name].bytes[j]]
             /\ rcall'.op = "read" =>
                    /\ kseg'[rcall'.name].bytes = kseg[rcall'.name].bytes
                    /\ buf' = [k \in 1..rcall'.size |->
                                  kseg[rcall'.name].bytes[rcall'.offset + k]]]_vars
(***************************************************************************)
(* Claims about the handoff layer, continued.                              *)
(***************************************************************************)
\* the count of the channel's semaphore; a semaphore that does not exist has
\* not been raised
Signal(n) == IF sem[SemName(n)].exists THEN sem[SemName(n)].count ELSE 0

\* process q takes a step of its consume from position at
Steps(q, at) == pc[q] = at /\ <<pc[q], result[q]>>' # <<pc[q], result[q]>>

\* the step is the return of line 224: the wait failed, nothing else changed
TimesOut(q) ==
    /\ pc'[q] = "idle" /\ result'[q] = "false"
    /\ out'[q] = out[q] /\ sem' = sem /\ shm' = shm

Mismatch(q) == shm[hist.chan[q]].env.data_type # TypeTag

\* C12: a consume whose wait succeeded on an envelope of another type returns
\* false and raises the semaphore again, so that the call has changed the count
\* by nothing; no step of the call up to this return touches the caller's array.
C12_MismatchRestores ==
    [][\A q \in Consumers :
          /\ (Steps(q, "c_type") /\ Mismatch(q))
                => /\ pc'[q] = "idle" /\ result'[q] = "false"
                   /\ sem'[SemName(hist.chan[q])].count =
                          sem[SemName(hist.chan[q])].count + 1
                   /\ hist'.io[q].net = 0
                   /\ shm' = shm
          /\ (\/ pc[q] \in {"idle", "c_trunc", "c_semopen", "c_wait"}
              \/ (pc[q] = "c_type" /\ Mismatch(q)))
                => out'[q] = out[q]]_vars

\* C12 witness: a consume called with a non-empty array has passed its wait and
\* returned false on an envelope of another type.
C12_Witness ==
    \E q \in Consumers :
        /\ pc[q] = "idle" /\ result[q] = "false"
        /\ hist.io[q].waited /\ hist.io[q].net = 0
        /\ out[q] # <<>>
        /\ Mismatch(q)

(***************************************************************************)
(* Claims about the registry, continued.                                   *)
(***************************************************************************)
\* the step is a call of op on a name that is registered when it is made
CallOn(op) == rcall'.op = op /\ sharedMemories[rcall'.name].present

\* C13: a destroy on a registered name removes the entry, whatever shmdt and
\* shmctl return.
C13_DestroyAlwaysUnregisters ==
    [][CallOn("destroy") => ~sharedMemories'[rcall'.name].present]_vars

C15_CreateOnRegisteredFails ==
    [][CallOn("create") => /\ rcall'.ret = "false" /\ rcall'.id = -1
                           /\ sharedMemories' = sharedMemories
                           /\ kseg' = kseg]_vars

\* C15 witness: a create asking another size has been refused on a name whose
\* segment is registered and attached.
C15_Witness ==
    /\ rcall.op = "create" /\ rcall.ret = "false"
    /\ sharedMemories[rcall.name].present
    /\ sharedMemories[rcall.name].isAttached
    /\ kseg[rcall.name].attached
    /\ rcall.size # sharedMemories[rcall.name].size
    /\ rcall.size <= kseg[rcall.name].size

(* Claims about the slot table of the handoff layer. *)
\* the slot create_or_open finds for the name process p asks in this step
Found(p) == find_slot_by_name(p, loc'[p].name)

\* C16: a create_or_open on a name that has a slot returns that slot and
\* changes neither the table nor the object; no name has two slots in use, and
\* every slot in use holds a mapped address.
C16_OneMappedSlotPerName ==
    /\ [][\A p \in Procs :
            (pc[p] = "idle" /\ pc'[p] # "idle" /\ Found(p) >= 0)
                => /\ loc'[p].slot = Found(p)
                   /\ pc'[p] \in {"p_env", "c_semopen"}
                   /\ shm_objects' = shm_objects
                   /\ shm' = shm]_vars
    /\ [](\A p \in Procs : \A i, j \in Slots :
            /\ (/\ shm_objects[p][i].in_use /\ shm_objects[p][j].in_use
                /\ shm_objects[p][i].name = shm_objects[p][j].name) => i = j
            /\ shm_objects[p][i].in_use => shm_objects[p][i].addr = "mapped")

\* C16 witness: a consume on a name the process had opened before has been
\* given the slot of that name.
C16_Witness ==
    \E q \in Consumers :
        /\ pc[q] = "c_semopen" /\ ~hist.fresh[q]
        /\ shm_objects[q][loc[q].slot].in_use
        /\ shm_objects[q][loc[q].slot].name = loc[q].name

(* Claims about the registry's attachment. *)
\* addr is a mapping of the name's segment that the process still has
ValidMapping(name) ==
    /\ sharedMemories[name].addr \notin {"null", "bad"}
    /\ kseg[name].exists /\ kseg[name].attached

\* C17: in every state an entry says isAttached exactly when its addr is a
\* mapping the process still has.
C17_AttachedIffMapped ==
    \A name \in RegNames :
        sharedMemories[name].present
            => (sharedMemories[name].isAttached <=> ValidMapping(name))

(* Claims about the handoff layer's sizes. *)
\* C18: while a channel's semaphore is raised, the envelope's size is eight
\* times its element count, and the object and every mapping of it are at
\* least envelope plus payload long.
C18_SizesWhileRaised ==
    \A n \in Names :
        Signal(n) > 0 =>
            /\ shm[n].env.size = shm[n].env.elements * DoubleSize
            /\ shm[n].size >= HeaderSize + shm[n].env.size
            /\ \A p \in Procs : \A i \in Slots :
                  (shm_objects[p][i].in_use /\ shm_objects[p][i].name = n)
                      => shm_objects[p][i].size >= HeaderSize + shm[n].env.size

(* Claims about the array wrappers. *)
\* the bytes of count elements from element offset on: [lo, hi)
ElementRange(i) ==
    [lo |-> DoubleSize * i.offset, hi |-> DoubleSize * (i.offset + i.size)]

\* C19: an array write or read of n elements at element offset k that returns
\* true has moved exactly the bytes [8k, 8k + 8n) of the segment.
C19_ElementOffsets ==
    [][LET name == rcall'.name
           r == ElementRange(info')
       IN  (/\ Transfer /\ rcall'.ret = "true"
            /\ info'.offset >= 0 /\ info'.size >= 0
            /\ r.hi <= sharedMemories[name].size)
             => /\ rcall'.op = "write" =>
                       kseg'[name].bytes =
                           [j \in 1..Len(kseg[name].bytes) |->
                               IF j - 1 >= r.lo /\ j - 1 < r.hi
                               THEN Data(rcall'.fam, j - 1 - r.lo)
                               ELSE kseg[name].bytes[j]]
                /\ rcall'.op = "read" =>
                       buf' = [k \in 1..(r.hi - r.lo) |->
                                  kseg[name].bytes[r.lo + k]]]_vars

(* Claims about the registry's attachment, continued. *)
\* the entry the call of this step is made on
Entry == sharedMemories[rcall'.name]

\* C20: a write or read that gets past its checks on an unattached entry
\* leaves it attached; on an attached entry it changes neither the entry nor
\* the process's attachment and cannot fail in shmat; on a name that is not
\* registered it returns false and registers nothing.
C20_AttachesOnce ==
    [][rcall'.op \in {"write", "read"} =>
         LET name == rcall'.name
         IN  /\ (Entry.present /\ ~Entry.isAttached /\ rcall'.ret # "false")
                   => /\ sharedMemories'[name].isAttached
                      /\ sharedMemories'[name].addr = "map"
                      /\ kseg'[name].attached
             /\ (Entry.present /\ Entry.isAttached)
                   => /\ sharedMemories' = sharedMemories
                      /\ kseg'[name].attached = kseg[name].attached
                      /\ (rcall'.offset + rcall'.size <= Entry.size)
                            => rcall'.ret # "false"
             /\ ~Entry.present
                   => /\ rcall'.ret = "false"
                      /\ sharedMemories' = sharedMemories
                      /\ kseg' = kseg]_vars

\* C20 witness: a read has returned bytes that an earlier write stored, so it
\* ran on the entry that write had attached.
C20_Witness ==
    /\ rcall.op = "read" /\ rcall.ret = "true"
    /\ \E k \in DOMAIN buf : buf[k] >= Data(1, 0)
    /\ sharedMemories[rcall.name].isAttached
    /\ kseg[rcall.name].attached

(* Claims about the older plugin's Create. *)
\* C21: a Create on a registered name keeps the entry's size and, while the
\* old mapping is attached, keeps its attachment flag and its address.
C21_CreateKeepsEntry ==
    [][CallOn("create") =>
         LET name == rcall'.name
         IN  /\ sharedMemories'[name].size = sharedMemories[name].size
             /\ kseg[name].attached
                   => /\ sharedMemories'[name].isAttached
                           = sharedMemories[name].isAttached
                      /\ sharedMemories'[name].addr = sharedMemories[name].addr]_vars

(* Claims about the unload. *)
\* C22: after cleanup the registry is empty, and no name that was registered
\* when it was called still has a segment in the system or an attachment to
\* it in the process.
C22_CleanupReclaimsAll ==
    [][rcall'.op = "cleanup" =>
         /\ list' = {}
         /\ \A n \in list : ~kseg'[n].exists /\ ~kseg'[n].attached]_vars

(* Claims about the handoff layer, continued. *)
\* the consume of q began after two publishes on its channel had returned true
\* and is the only other call made; the later array is no longer than the
\* earlier one
AfterTwoPublishes(q) ==
    /\ hist.calls = 3 /\ hist.pubDone = 2
    /\ hist.pubAtStart[q] = 2 /\ hist.quiet[q]
    /\ \A a \in hist.published[hist.chan[q]] :
          Len(hist.lastPub[hist.chan[q]]) <= Len(a)

\* C23: a consume that returns true after two publishes of one process, the
\* second no longer than the first, returns the second array, and the envelope
\* holds that array's element count.
C23_LastWriterWins ==
    \A q \in Consumers :
        (pc[q] = "idle" /\ result[q] = "true" /\ AfterTwoPublishes(q))
            => /\ out[q] = hist.lastPub[hist.chan[q]]
               /\ shm[hist.chan[q]].env.elements = Len(hist.lastPub[hist.chan[q]])

\* the consumers that hold a unit of the channel's semaphore: the wait has
\* succeeded and the call has neither given the unit back nor returned
Holding(n) ==
    {q \in DuoConsumers : /\ hist.chan[q] = n /\ hist.io[q].waited
                          /\ pc[q] \in {"c_type", "c_copy", "crashed"}}

\* C24: a consume that returns gives back the unit it took, so the count of the
\* semaphore plus the consumers inside a read is the number of completed
\* publishes, however many consumes have returned true.
C24_UnitsComeBack ==
    \A n \in Names : Signal(n) + Cardinality(Holding(n)) = hist.pubDone

\* C24 witness: after one publish of a non-empty array both consumers have
\* returned true with that array.
C24_Witness ==
    /\ hist.pubStarted = 1 /\ hist.pubDone = 1
    /\ \A q \in DuoConsumers :
          /\ pc[q] = "idle" /\ result[q] = "true"
          /\ out[q] = hist.lastPub[hist.chan[q]]
          /\ Len(out[q]) >= 1

\* the step is a return of q's consume from position at
Fails(q, at) == Steps(q, at) /\ pc'[q] = "idle"

\* C25: a consume that returns from its sem_open or from its wait returns false
\* with the caller's array and the semaphores as they were and with no unit
\* taken; the caller's array changes only in a consume whose wait succeeded, at
\* a type check that finds the tag or in the copy after it.
C25_FailureLeavesArray ==
    [][\A q \in Consumers :
          /\ (Fails(q, "c_semopen") \/ Fails(q, "c_wait"))
                => /\ result'[q] = "false"
                   /\ out'[q] = out[q]
                   /\ sem' = sem
                   /\ hist'.io[q].net = 0
          /\ out'[q] # out[q]
                => /\ hist.io[q].waited
                   /\ \/ pc[q] = "c_type" /\ ~Mismatch(q)
                      \/ pc[q] = "c_copy"]_vars

\* C25 witness: a consume called with a non-empty array has got its slot and
\* returned false from sem_open, the channel having no semaphore.
C25_Witness ==
    \E q \in Consumers :
        /\ pc[q] = "idle" /\ result[q] = "false"
        /\ find_slot_by_name(q, hist.chan[q]) >= 0
        /\ ~sem[SemName(hist.chan[q])].exists
        /\ Len(out[q]) >= 1

(* Claims about the slot table, continued. *)
\* every slot of p is in use
Full(p) == find_free_slot(p) < 0

\* C26: no step of a publish or a consume releases a slot, and a process whose
\* table is full gets past create_or_open only with a name that has a slot.
C26_SlotsOnlyGrow ==
    [][\A p \in Procs :
          /\ \A i \in Slots :
                shm_objects[p][i].in_use => shm_objects'[p][i].in_use
          /\ (Full(p) /\ pc[p] = "idle" /\ pc'[p] # "idle")
                => /\ Found(p) >= 0
                   /\ loc'[p].slot = Found(p)
                   /\ pc'[p] \in {"p_env", "c_semopen"}]_vars
====
